---- MODULE Spec2Model ----
(***************************************************************************)
(* State machine of the CheckoutForm component                             *)
(* (src/components/orders/CheckoutForm.tsx).                               *)
(*                                                                         *)
(* The component's React state (succeeded, error, processing, disabled,    *)
(* clientSecret), the two hook results (stripe, elements), the             *)
(* create-payment-intent requests in flight and the history of             *)
(* stripe.confirmCardPayment calls are the variables.  One action stands   *)
(* for each handler or callback: the intent response (.then of the fetch), *)
(* handleChange, the synchronous part of handleSubmit, the continuation of *)
(* handleSubmit after the await, and the two hooks turning non-null.       *)
(*                                                                         *)
(* A nullable JavaScript value is modelled as a sequence of length at most *)
(* one: Null is <<>>, and Some(v) is <<v>>.                                *)
(*                                                                         *)
(* The environment is taken as the file declares it.  useStripe() and      *)
(* useElements() are nullable and turn non-null independently, at any      *)
(* time; nothing in the file ties the widget's change events to them, so   *)
(* a change event may arrive while either is still null.  The backend      *)
(* answers a create-payment-intent request with any secret of Secrets,     *)
(* and confirmCardPayment answers with any payload of Payloads.  The form  *)
(* is submitted through its only submit button, so a submission needs the  *)
(* button enabled.  The setters a handler calls take effect together: the  *)
(* handlers run on one thread and no event is handled between them.        *)
(***************************************************************************)
EXTENDS Integers, Sequences, FiniteSets, TLC

\* ---------------------------------------------------------------- bounds
\* Most create-payment-intent requests tracked as in flight (the counter
\* saturates there), and most confirmCardPayment calls in one session.
MaxPending == 2
MaxCalls == 3

\* ---------------------------------------------------------------- values
Null == <<>>
Some(v) == <<v>>

\* The handles useStripe() and useElements() return once Stripe.js is loaded.
StripeClient == Some("stripe")
ElementsHandle == Some("elements")

\* useState("") for clientSecret.
InitialSecret == ""

\* Client secrets the backend may answer with (data.clientSecret).
Secrets == {"pi_1_secret", "pi_2_secret"}

\* event.error.message of a card-widget change event.
WidgetMessages == {"Your card number is incomplete."}

\* payload.error.message of a confirmCardPayment result.
ProviderMessages == {"card declined", "insufficient funds"}

\* StripeCardElementChangeEvent, as far as handleChange reads it.
ChangeEvents == [empty : BOOLEAN, error : {Null} \cup {Some(m) : m \in WidgetMessages}]

\* The result of confirmCardPayment, as far as handleSubmit reads it.
Payloads == [error : {Null} \cup {Some(m) : m \in ProviderMessages}]

VARIABLES
    succeeded,       \* useState(false)
    error,           \* useState<null | string>(null): Null or Some(string)
    processing,      \* useState<boolean>(false)
    disabled,        \* useState(true)
    clientSecret,    \* useState("")
    stripe,          \* useStripe(): Null or StripeClient
    elements,        \* useElements(): Null or ElementsHandle
    intentRequests,  \* create-payment-intent fetches in flight (saturating)
    confirmCalls,    \* history of confirmCardPayment calls, oldest first
    lastChange       \* history: the most recent change event, Null before the first

vars == <<succeeded, error, processing, disabled, clientSecret, stripe, elements,
          intentRequests, confirmCalls, lastChange>>

\* What a render of the component reads: a change of it re-renders.
reactState == <<succeeded, error, processing, disabled, clientSecret, stripe, elements>>

CallStatus == {"pending", "error", "ok"}

TypeOK ==
    /\ succeeded \in BOOLEAN
    /\ processing \in BOOLEAN
    /\ disabled \in BOOLEAN
    /\ error \in {Null} \cup {Some(s) : s \in {""} \cup WidgetMessages
                                  \cup {"Payment failed " \o m : m \in ProviderMessages}}
    /\ clientSecret \in {InitialSecret} \cup Secrets
    /\ stripe \in {Null, StripeClient}
    /\ elements \in {Null, ElementsHandle}
    /\ intentRequests \in 0..MaxPending
    /\ Len(confirmCalls) <= MaxCalls
    /\ \A i \in DOMAIN confirmCalls :
          /\ confirmCalls[i].secret \in {InitialSecret} \cup Secrets
          /\ confirmCalls[i].status \in CallStatus
          /\ confirmCalls[i].message \in {""} \cup ProviderMessages
    /\ lastChange \in {Null} \cup {Some(e) : e \in ChangeEvents}

\* ------------------------------------------------------------- helpers
Min(a, b) == IF a < b THEN a ELSE b

\* The effect without a dependency list runs after every render and issues
\* one fetch; n is the number of fetches in flight before the render.
AfterRender(n) == IF reactState' # reactState THEN Min(n + 1, MaxPending) ELSE n

\* The calls confirmCardPayment has not answered yet.
PendingCalls == {i \in DOMAIN confirmCalls : confirmCalls[i].status = "pending"}

\* <button disabled={processing || disabled || succeeded}>
SubmitDisabled_NoProcessing == disabled \/ succeeded
SubmitDisabled_NoSucceeded == processing \/ disabled
SubmitDisabled == processing \/ disabled \/ succeeded

\* if (elements) { if (stripe) { ... } }
CanConfirm_StripeOnly == stripe # Null
CanConfirm == elements # Null /\ stripe # Null

\* `Payment failed ${payload.error.message}`
FailureText_NoPrefix(m) == m
FailureText(m) == "Payment failed " \o m

\* setDisabled(event.empty)
ChangeDisabled_FromError(event) == event.error # Null
ChangeDisabled(event) == event.empty

\* setError(event.error ? event.error.message : "")
ChangeError(event) == IF event.error # Null THEN Some(event.error[1]) ELSE Some("")

\* if (payload.error) { setError(...); setProcessing(false); }
ErrorBranch(payload) ==
    [error |-> Some(FailureText(payload.error[1])), processing |-> FALSE,
     succeeded |-> succeeded]

\* else { setError(null); setProcessing(false); setSucceeded(true); }
SuccessBranch_NotSucceeded == [error |-> Null, processing |-> FALSE, succeeded |-> FALSE]
SuccessBranch == [error |-> Null, processing |-> FALSE, succeeded |-> TRUE]

\* ---------------------------------------------------------------- Init
\* The state after the first render: the useState initial values, the hooks'
\* first results, and the first render's effect has issued its fetch.
Init ==
    /\ succeeded = FALSE
    /\ error = Null
    /\ processing = FALSE
    /\ disabled = TRUE
    /\ clientSecret = InitialSecret
    /\ stripe \in {Null, StripeClient}
    /\ elements \in {Null, ElementsHandle}
    /\ intentRequests = 1
    /\ confirmCalls = <<>>
    /\ lastChange = Null

\* -------------------------------------------------------------- actions
\* useStripe() turns non-null and the component re-renders.
StripeLoaded ==
    /\ stripe = Null
    /\ stripe' = StripeClient
    /\ UNCHANGED <<succeeded, error, processing, disabled, clientSecret, elements,
                   confirmCalls, lastChange>>
    /\ intentRequests' = AfterRender(intentRequests)

\* useElements() turns non-null and the component re-renders.
ElementsLoaded ==
    /\ elements = Null
    /\ elements' = ElementsHandle
    /\ UNCHANGED <<succeeded, error, processing, disabled, clientSecret, stripe,
                   confirmCalls, lastChange>>
    /\ intentRequests' = AfterRender(intentRequests)

\* .then((data) => { setClientSecret(data.clientSecret); })
IntentResponse_ClearsError(secret) ==
    /\ intentRequests > 0
    /\ clientSecret' = secret
    /\ error' = Null
    /\ UNCHANGED <<succeeded, processing, disabled, stripe, elements,
                   confirmCalls, lastChange>>
    /\ intentRequests' = AfterRender(intentRequests - 1)

IntentResponse(secret) ==
    /\ intentRequests > 0
    /\ clientSecret' = secret
    /\ UNCHANGED <<succeeded, error, processing, disabled, stripe, elements,
                   confirmCalls, lastChange>>
    /\ intentRequests' = AfterRender(intentRequests - 1)

\* handleChange: the card widget reports a change.
HandleChange(event) ==
    /\ disabled' = ChangeDisabled(event)
    /\ error' = ChangeError(event)
    /\ lastChange' = Some(event)
    /\ UNCHANGED <<succeeded, processing, clientSecret, stripe, elements, confirmCalls>>
    /\ intentRequests' = AfterRender(intentRequests)

\* handleSubmit up to the await: the form is submitted through its button,
\* which the browser lets happen only while the button is enabled.
HandleSubmit ==
    /\ ~SubmitDisabled
    /\ Len(confirmCalls) < MaxCalls
    /\ processing' = TRUE
    /\ confirmCalls' =
          IF CanConfirm
          THEN Append(confirmCalls,
                      [secret |-> clientSecret, status |-> "pending", message |-> ""])
          ELSE confirmCalls
    /\ UNCHANGED <<succeeded, error, disabled, clientSecret, stripe, elements, lastChange>>
    /\ intentRequests' = AfterRender(intentRequests)

\* handleSubmit after the await: confirmCardPayment has answered with payload.
ConfirmResponse(payload) ==
    /\ \E i \in PendingCalls :
          confirmCalls' =
             [confirmCalls EXCEPT
                ![i].status = IF payload.error # Null THEN "error" ELSE "ok",
                ![i].message = IF payload.error # Null THEN payload.error[1] ELSE ""]
    /\ LET next == IF payload.error # Null THEN ErrorBranch(payload) ELSE SuccessBranch
       IN  /\ error' = next.error
           /\ processing' = next.processing
           /\ succeeded' = next.succeeded
    /\ UNCHANGED <<disabled, clientSecret, stripe, elements, lastChange>>
    /\ intentRequests' = AfterRender(intentRequests)

CardChanged == \E event \in ChangeEvents : HandleChange(event)
IntentAnswered == \E secret \in Secrets : IntentResponse(secret)
ConfirmAnswered == \E payload \in Payloads : ConfirmResponse(payload)

Next ==
    \/ StripeLoaded
    \/ ElementsLoaded
    \/ IntentAnswered
    \/ CardChanged
    \/ HandleSubmit
    \/ ConfirmAnswered

Spec == Init /\ [][Next]_vars

\* The payment processor answers every confirmation call it received.
FairSpec == Spec /\ WF_vars(ConfirmAnswered)

\* ------------------------------------------------- properties: helpers
\* The step issues a new confirmCardPayment call.
CallIssued == Len(confirmCalls') > Len(confirmCalls)

\* The step is the answer to call i, with the given status.
Answered(i, status) ==
    /\ i \in DOMAIN confirmCalls
    /\ confirmCalls[i].status = "pending"
    /\ confirmCalls'[i].status = status

\* The Failed state: the last confirmation was answered with an error and
\* no submission has happened since.
Failed ==
    /\ ~processing
    /\ ~succeeded
    /\ confirmCalls # <<>>
    /\ confirmCalls[Len(confirmCalls)].status = "error"

\* The displayed error is the message of a failed confirmation.
FailureShown ==
    \E m \in ProviderMessages : error = Some("Payment failed " \o m)

\* ----------------------------------------------------------------- C1
\* C1: no confirmCardPayment call is ever issued with the initial empty
\* client secret "": every call in the history carries a non-empty secret.
C1_NoEmptySecretConfirmed ==
    \A i \in DOMAIN confirmCalls : confirmCalls[i].secret # ""

\* ----------------------------------------------------------------- C2
\* C2: no confirmation call is issued from a state where processing,
\* disabled or succeeded holds, and at most one call is in flight.
C2_NoSubmitWhileGuarded ==
    /\ [][CallIssued => ~(processing \/ disabled \/ succeeded)]_vars
    /\ [](Cardinality(PendingCalls) <= 1)

\* A second call is in flight after an earlier one was answered, and the
\* widget has reported changes in between.
C2_Witness ==
    /\ Len(confirmCalls) >= 2
    /\ PendingCalls # {}
    /\ lastChange # Null
    /\ processing

\* ----------------------------------------------------------------- C3
\* C3: a submission while stripe, elements or the client secret is absent
\* is a no-op: no call is issued and processing, succeeded, error, disabled
\* and clientSecret keep their values.
C3_SubmitWithoutPrerequisitesIsNoOp ==
    [][(HandleSubmit /\ (stripe = Null \/ elements = Null \/ clientSecret = ""))
         => UNCHANGED <<confirmCalls, processing, succeeded, error, disabled,
                        clientSecret>>]_vars

\* ----------------------------------------------------------------- C4
\* C4: an answer without error moves Processing to Succeeded (succeeded,
\* not processing, error null); once succeeded it stays succeeded, the
\* submit button stays disabled and no further call is issued.
C4_SucceededIsTerminal ==
    /\ [][\A i \in DOMAIN confirmCalls :
             Answered(i, "ok") =>
                (processing /\ succeeded' /\ ~processing' /\ error' = Null)]_vars
    /\ [][succeeded => (succeeded' /\ ~CallIssued)]_vars
    /\ [](succeeded => SubmitDisabled)
    /\ [](succeeded => (~processing /\ PendingCalls = {}))

\* Succeeded, and afterwards the widget reported a non-empty card (the
\* success branch had set error to null and the button would be enabled
\* but for succeeded) and a fresh intent response arrived.
C4_Witness ==
    /\ succeeded
    /\ ~disabled
    /\ error = Some("")
    /\ confirmCalls # <<>>
    /\ clientSecret # confirmCalls[Len(confirmCalls)].secret

\* ----------------------------------------------------------------- C5
\* C5: an answer with error message m moves Processing to Failed
\* (processing false, succeeded still false, error = "Payment failed " + m),
\* and from Failed a submission is allowed and leads back to Processing.
C5_FailureThenRetry ==
    /\ [][\A i \in DOMAIN confirmCalls :
             Answered(i, "error") =>
                /\ processing /\ ~processing'
                /\ ~succeeded /\ ~succeeded'
                /\ error' = Some("Payment failed " \o confirmCalls'[i].message)
                /\ Failed']_vars
    /\ []((Failed /\ ~disabled) => ~SubmitDisabled)
    /\ [][(Failed /\ HandleSubmit) => (processing' /\ CallIssued)]_vars

\* A failed confirmation followed by a new submission that is in flight.
C5_Witness ==
    /\ Len(confirmCalls) >= 2
    /\ confirmCalls[1].status = "error"
    /\ confirmCalls[1].message = "card declined"
    /\ confirmCalls[2].status = "pending"
    /\ processing

\* ----------------------------------------------------------------- C6
\* C6 (as stated): every execution of handleSubmit issues exactly one
\* confirmation call, carrying the client secret stored at that moment.
C6_EverySubmitIssuesOneCall ==
    [][HandleSubmit =>
          /\ Len(confirmCalls') = Len(confirmCalls) + 1
          /\ confirmCalls'[Len(confirmCalls')].secret = clientSecret]_vars

\* C6 (amended): an execution of handleSubmit with both stripe and elements
\* present issues exactly one confirmation call, carrying the client secret
\* stored at that moment; with either absent it issues none.
C6_SubmitIssuesOneCallWhenLoaded ==
    [][HandleSubmit =>
          IF stripe # Null /\ elements # Null
          THEN /\ Len(confirmCalls') = Len(confirmCalls) + 1
               /\ SubSeq(confirmCalls', 1, Len(confirmCalls)) = confirmCalls
               /\ confirmCalls'[Len(confirmCalls')].secret = clientSecret
               /\ confirmCalls'[Len(confirmCalls')].status = "pending"
          ELSE confirmCalls' = confirmCalls]_vars

\* A call in flight carrying a backend-issued secret that is still stored.
C6_Witness ==
    /\ PendingCalls # {}
    /\ \E i \in PendingCalls :
          confirmCalls[i].secret = clientSecret /\ clientSecret \in Secrets

\* ----------------------------------------------------------------- C7
\* C7 (as stated): the same secret value is never passed to the
\* confirmation capability in two different calls.
C7_SecretConsumedOnce ==
    \A i, j \in DOMAIN confirmCalls :
        i < j => confirmCalls[i].secret # confirmCalls[j].secret

\* C7 (amended): the same secret value is passed in two different calls
\* only when the earlier call was answered with an error (a retry from
\* Failed): never while the earlier call is in flight or after it succeeded.
C7_SecretReusedOnlyAfterFailure ==
    \A i, j \in DOMAIN confirmCalls :
        (i < j /\ confirmCalls[i].secret = confirmCalls[j].secret)
            => confirmCalls[i].status = "error"

\* A retry that passes the secret of the failed call again.
C7_Witness ==
    \E i, j \in DOMAIN confirmCalls :
        /\ i < j
        /\ confirmCalls[i].secret = confirmCalls[j].secret
        /\ confirmCalls[i].secret \in Secrets

\* ----------------------------------------------------------------- C8
\* C8: disabled equals the empty flag of the most recent change event (true
\* before the first), and only the change handler changes disabled.
C8_DisabledFollowsLastChange ==
    /\ [](disabled = (IF lastChange = Null THEN TRUE ELSE lastChange[1].empty))
    /\ [][disabled' # disabled => lastChange' # lastChange \/ CardChanged]_vars
    /\ [][disabled' # disabled => ~(HandleSubmit \/ ConfirmAnswered \/ IntentAnswered
                                     \/ StripeLoaded \/ ElementsLoaded)]_vars

\* Change events interleaved with a submission and its answer, the last
\* one reporting a non-empty card.
C8_Witness ==
    /\ lastChange # Null
    /\ lastChange[1].empty = FALSE
    /\ lastChange[1].error # Null
    /\ ~disabled
    /\ confirmCalls # <<>>
    /\ PendingCalls = {}

\* ----------------------------------------------------------------- C9
\* C9 (as stated): a change event or an intent response in Processing,
\* Succeeded or Failed(message) leaves processing, succeeded and the
\* recorded failure message as they were.
C9_SubmissionStateFrame ==
    [][((CardChanged \/ IntentAnswered) /\ (processing \/ succeeded \/ Failed))
          => (UNCHANGED <<processing, succeeded>> /\ (FailureShown => error' = error))]_vars

\* C9 (amended): processing and succeeded change only on a form submission
\* or a confirmation response; a change event or an intent response leaves
\* them as they were; an intent response also leaves the error message as
\* it was, while a change event replaces it by the event's message or "".
C9_ProcessingSucceededFrame ==
    /\ [][(CardChanged \/ IntentAnswered) => UNCHANGED <<processing, succeeded>>]_vars
    /\ [][IntentAnswered => error' = error]_vars
    /\ [][\A event \in ChangeEvents :
             HandleChange(event) =>
                error' = (IF event.error = Null THEN Some("")
                          ELSE Some(event.error[1]))]_vars
    /\ [][<<processing, succeeded>>' # <<processing, succeeded>>
             => (HandleSubmit \/ ConfirmAnswered)]_vars

\* In Failed, a change event has replaced the failure message.
C9_Witness ==
    /\ Failed
    /\ ~FailureShown
    /\ error \in {Some(m) : m \in WidgetMessages}

\* ---------------------------------------------------------------- C10
\* C10: when every confirmation call is answered, every state where
\* processing is true is followed by one where processing is false with
\* succeeded true or a failure message shown.
C10_ProcessingEventuallyLeft ==
    processing ~> (~processing /\ (succeeded \/ FailureShown))

====
